---- MODULE Spec2Model ----
(***************************************************************************)
(* Model of erudite: the Gutenberg loader (loaders/gutenberg.py,           *)
(* loaders/common/types.py, loaders/common/util.py), which flattens a book *)
(* into Entry objects and emits them to the Weaviate batch connector, and  *)
(* the Gutenberg HTML extractor (extractors/gutenberg_html.py,             *)
(* extractors/common.py).                                                  *)
(***************************************************************************)
EXTENDS Integers, Sequences, FiniteSets, TLC

VARIABLES
    json_obj,    \* the book dictionary handed to loaders.gutenberg.main
    heap,        \* the Entry objects, by identity: heap[i] is object i
    pc,          \* position of the running program
    ci,          \* index of the chapter the running generator is at
    pi,          \* index of the paragraph the running generator is at
    chapters_,   \* _chapters of get_entries: the Chapter objects
    cur,         \* list(chap.get_paragraphs()) being built for chapter ci
    paragraphs_, \* _paragraphs of get_entries: what reduce(concat) has so far
    entries,     \* the list get_entries yields from
    li,          \* index of the entry load_batch is at
    ops,         \* the calls issued to the batch connector, in order
    log,         \* the records written through logging
    exc,         \* the exception that ended the run, or None
    soup,        \* the parsed document: the div.chapter tags and their p tags
    clean,       \* the list `chapters` built by Chapters.clean_chapters
    ei,          \* index of the loop the extractor is in
    ret,         \* the list `ret` built by Chapters.get
    doc,         \* the parsed document: its meta tags and the headings of its body
    compiled,    \* what Book.get has read and built so far: the book of compile()
    extract,     \* the Extract object: input, output, extractor, overwrite
    fs,          \* the file system: the content at each path that exists
    scan,        \* the directory entries os.scandir has still to yield
    calls,       \* the number of calls of BookCompilation.get_entries so far
    args         \* the arguments of the call in progress, <<>> when not modelled

lvars == <<json_obj, heap, pc, ci, pi, chapters_, cur, paragraphs_, entries,
           li, ops, log, exc>>

lvars_but_pc == <<json_obj, heap, ci, pi, chapters_, cur, paragraphs_, entries,
                  li, ops, log, exc>>

lvars_but_pc_exc == <<json_obj, heap, ci, pi, chapters_, cur, paragraphs_, entries,
                      li, ops, log>>

evars == <<soup, clean, ei, ret>>

xvars == <<doc, compiled, extract, fs, scan, calls, args>>

vars == <<lvars, evars, xvars>>

\* Python's None
None == "None"

\* None where a text is expected. A text is a sequence of characters, and None
\* is no character, so that this value is no text.
NoText == <<None>>

(***************************************************************************)
(* Bounds of the model.                                                    *)
(***************************************************************************)
MaxChapters == 2
MaxParagraphs == 2
MaxRefs == 2
MaxMarkup == 7
MaxHeading == 4
MaxBody == 2
MaxFiles == 3
MaxCalls == 2

(***************************************************************************)
(* The book dictionaries the loader is run on: the output schema of the    *)
(* extractor.                                                              *)
(***************************************************************************)
Titles == {"Moby-Dick"}
Texts == {"x", "y"}
ChapterTexts == {"x y"}

ParagraphLists == UNION {[1..n -> Texts] : n \in 0..MaxParagraphs}

ParagraphDicts(ts) == [i \in 1..Len(ts) |-> [seq |-> i, text |-> ts[i]]]

ChapterDict(i, text, ts) ==
    [title |-> None, seq |-> i, text |-> text, paragraphs |-> ParagraphDicts(ts)]

BookDict(title, texts, ps) ==
    [title |-> title,
     author |-> <<"Herman Melville">>,
     meta |-> [language |-> "en", subject |-> None, citation |-> "cit"],
     chapters |-> [i \in 1..Len(ps) |-> ChapterDict(i, texts[i], ps[i])]]

Books ==
    {BookDict(t, texts, ps) :
        t \in Titles,
        <<texts, ps>> \in UNION {[1..n -> ChapterTexts] \X [1..n -> ParagraphLists] :
                                    n \in 0..MaxChapters}}

(***************************************************************************)
(* loaders/common/types.py                                                 *)
(***************************************************************************)
\* Entry.__init__
Entry(data, class_name) ==
    [class_name |-> class_name, data |-> data, references |-> <<>>]

\* the dataclass Reference; parent and child are objects (identities)
Reference(parent, child, on_parent_property, on_child_property) ==
    [parent |-> parent, child |-> child,
     on_parent_property |-> on_parent_property,
     on_child_property |-> on_child_property]

\* mutant of Entry.uuid: the id is hashed from the properties the entry upserts
uuid_OfOwnProperties(e) ==
    <<e.class_name,
      CASE e.class_name = "Book" -> [title |-> e.data.title, author |-> e.data.author]
        [] e.class_name = "Meta" -> e.data.meta
        [] e.class_name = "Chapter" ->
              [title |-> e.data.title, seq |-> e.data.seq, text |-> e.data.text]
        [] e.class_name = "Paragraph" -> e.data>>

\* Entry.uuid: generate_uuid5(identifier=self.data, namespace=self.class_name),
\* a hash of str(namespace) + str(identifier); the hash is taken as injective.
uuid(e) == <<e.class_name, e.data>>

\* mutant of `ref not in self.__references`: a Reference of the same parent by
\* the same property counts as the same Reference
InList_SameProperty(ref, refs) ==
    \E k \in 1..Len(refs) :
        /\ refs[k].parent = ref.parent
        /\ refs[k].on_parent_property = ref.on_parent_property

\* `ref not in self.__references`: dataclass equality, field by field
InList(ref, refs) == \E k \in 1..Len(refs) : refs[k] = ref

\* mutant of the test of add_references: only the child of a Reference may hold it
RECURSIVE InvalidReference_ChildOnly(_, _, _)
InvalidReference_ChildOnly(self, refs, new) ==
    IF new = <<>> THEN FALSE
    ELSE LET ref == Head(new) IN
         IF InList(ref, refs) THEN InvalidReference_ChildOnly(self, refs, Tail(new))
         ELSE IF ~(self = ref.child) THEN TRUE
         ELSE InvalidReference_ChildOnly(self, Append(refs, ref), Tail(new))

\* Entry.add_references raises InvalidReferenceError
RECURSIVE InvalidReference(_, _, _)
InvalidReference(self, refs, new) ==
    IF new = <<>> THEN FALSE
    ELSE LET ref == Head(new) IN
         IF InList(ref, refs) THEN InvalidReference(self, refs, Tail(new))
         ELSE IF ~(self = ref.child \/ self = ref.parent) THEN TRUE
         ELSE InvalidReference(self, Append(refs, ref), Tail(new))

\* mutant of Entry.add_references: the list is replaced by the new References
add_references_Replacing(self, refs, new) == new

\* Entry.add_references: the reference list of `self` after the call
RECURSIVE add_references(_, _, _)
add_references(self, refs, new) ==
    IF new = <<>> THEN refs
    ELSE LET ref == Head(new) IN
         IF InList(ref, refs) THEN add_references(self, refs, Tail(new))
         ELSE IF ~(self = ref.child \/ self = ref.parent) THEN refs
         ELSE add_references(self, Append(refs, ref), Tail(new))

(***************************************************************************)
(* loaders/gutenberg.py                                                    *)
(***************************************************************************)
BookId == 1

\* Book.entry
BookEntry(data) == [title |-> data.title, author |-> data.author]

\* Meta.entry
MetaEntry(data) ==
    [language |-> data.meta.language, subject |-> data.meta.subject,
     citation |-> data.meta.citation]

\* mutant of Chapter.entry: the whole chapter dictionary is the payload
ChapterEntry_WholeData(data) == data

\* Chapter.entry
ChapterEntry(data) == [title |-> data.title, seq |-> data.seq, text |-> data.text]

\* Paragraph.entry
ParagraphEntry(data) == [seq |-> data.seq, text |-> data.text]

\* the property `entry` of an Entry object, by its class
entry(e) ==
    CASE e.class_name = "Book" -> BookEntry(e.data)
      [] e.class_name = "Meta" -> MetaEntry(e.data)
      [] e.class_name = "Chapter" -> ChapterEntry(e.data)
      [] e.class_name = "Paragraph" -> ParagraphEntry(e.data)

\* self.add_references([contains]); child.add_references([container]) on the heap
AddBoth(h, self, contains, child, container) ==
    LET h1 == [h EXCEPT ![self].references = add_references(self, @, <<contains>>)]
    IN  [h1 EXCEPT ![child].references = add_references(child, @, <<container>>)]

\* whether one of these two calls raises InvalidReferenceError
AddBothRaises(h, self, contains, child, container) ==
    \/ InvalidReference(self, h[self].references, <<contains>>)
    \/ InvalidReference(child, h[child].references, <<container>>)

\* the body of the loop of Book.get_chapters for `child`: the heap with the new
\* Chapter object, before the two add_references calls
new_chapter(h, child) == Append(h, Entry(child, "Chapter"))

\* mutant of `contains` of get_chapters: a two-way Reference
chapter_contains_TwoWay(h, self) == Reference(self, Len(h) + 1, "chapters", "containedIn")

chapter_contains(h, self) == Reference(self, Len(h) + 1, "chapters", None)

chapter_container(h, self) == Reference(Len(h) + 1, self, "containedIn", None)

\* Book.get_chapters, one iteration: the heap after it
get_chapters(h, self, child) ==
    AddBoth(new_chapter(h, child), self, chapter_contains(h, self),
            Len(h) + 1, chapter_container(h, self))

\* Chapter.get_paragraphs, one iteration
new_paragraph(h, child) == Append(h, Entry(child, "Paragraph"))

paragraph_contains(h, self) == Reference(self, Len(h) + 1, "paragraphs", None)

paragraph_container(h, self) == Reference(Len(h) + 1, self, "containedIn", None)

get_paragraphs(h, self, child) ==
    AddBoth(new_paragraph(h, child), self, paragraph_contains(h, self),
            Len(h) + 1, paragraph_container(h, self))

\* Book.get_meta: Meta(self.data, class_name="Meta")
new_meta(h, self) == Append(h, Entry(h[self].data, "Meta"))

meta_contains(h, self) == Reference(self, Len(h) + 1, "meta", None)

meta_container(h, self) == Reference(Len(h) + 1, self, "containedIn", None)

\* mutant of Book.get_meta: the Meta is not given the reference back
get_meta_OneWay(h, self) ==
    [new_meta(h, self) EXCEPT
        ![self].references = add_references(self, @, <<meta_contains(h, self)>>)]

get_meta(h, self) ==
    AddBoth(new_meta(h, self), self, meta_contains(h, self),
            Len(h) + 1, meta_container(h, self))

\* mutant of the list of get_entries: the paragraphs before the chapters
entries_list_ParagraphsFirst(book, meta, chs, pars) == <<book, meta>> \o pars \o chs

\* entries = [self.book, self.book.get_meta(), *_chapters, *_paragraphs]
entries_list(book, meta, chs, pars) == <<book, meta>> \o chs \o pars

\* get_entries: one iteration of Book.get_chapters, driven by list()
get_entries_chapters ==
    /\ pc = "get_chapters"
    /\ ci <= Len(heap[BookId].data.chapters)
    /\ LET child == heap[BookId].data.chapters[ci] IN
       IF AddBothRaises(new_chapter(heap, child), BookId,
                        chapter_contains(heap, BookId),
                        Len(heap) + 1, chapter_container(heap, BookId))
       THEN /\ pc' = "raised"
            /\ exc' = "InvalidReferenceError"
            /\ UNCHANGED <<heap, ci, chapters_>>
       ELSE /\ heap' = get_chapters(heap, BookId, child)
            /\ chapters_' = Append(chapters_, Len(heap) + 1)
            /\ ci' = ci + 1
            /\ UNCHANGED <<pc, exc>>
    /\ UNCHANGED <<json_obj, pi, cur, paragraphs_, entries, li, ops, log>>
    /\ UNCHANGED evars
    /\ UNCHANGED xvars

\* get_entries: list(self.book.get_chapters()) is complete and
\* reduce(concat, map(...)) starts; reduce is given no initial value and raises
\* TypeError on an empty iterable
get_entries_reduce ==
    /\ pc = "get_chapters"
    /\ ci > Len(heap[BookId].data.chapters)
    /\ IF chapters_ = <<>>
       THEN /\ pc' = "raised"
            /\ exc' = "TypeError"
            /\ UNCHANGED <<ci, pi>>
       ELSE /\ pc' = "get_paragraphs"
            /\ ci' = 1
            /\ pi' = 1
            /\ UNCHANGED exc
    /\ UNCHANGED <<json_obj, heap, chapters_, cur, paragraphs_, entries, li, ops, log>>
    /\ UNCHANGED evars
    /\ UNCHANGED xvars

\* get_entries: one iteration of Chapter.get_paragraphs of chapter ci, driven by
\* list() in the lambda of map
get_entries_paragraphs ==
    /\ pc = "get_paragraphs"
    /\ pi <= Len(heap[chapters_[ci]].data.paragraphs)
    /\ LET self == chapters_[ci]
           child == heap[self].data.paragraphs[pi]
       IN
       IF AddBothRaises(new_paragraph(heap, child), self,
                        paragraph_contains(heap, self),
                        Len(heap) + 1, paragraph_container(heap, self))
       THEN /\ pc' = "raised"
            /\ exc' = "InvalidReferenceError"
            /\ UNCHANGED <<heap, pi, cur>>
       ELSE /\ heap' = get_paragraphs(heap, self, child)
            /\ cur' = Append(cur, Len(heap) + 1)
            /\ pi' = pi + 1
            /\ UNCHANGED <<pc, exc>>
    /\ UNCHANGED <<json_obj, ci, chapters_, paragraphs_, entries, li, ops, log>>
    /\ UNCHANGED evars
    /\ UNCHANGED xvars

\* get_entries: list(chap.get_paragraphs()) of chapter ci is complete and reduce
\* concatenates it to what it has
get_entries_concat ==
    /\ pc = "get_paragraphs"
    /\ pi > Len(heap[chapters_[ci]].data.paragraphs)
    /\ paragraphs_' = paragraphs_ \o cur
    /\ cur' = <<>>
    /\ pi' = 1
    /\ IF ci < Len(chapters_)
       THEN ci' = ci + 1 /\ UNCHANGED pc
       ELSE pc' = "get_meta" /\ UNCHANGED ci
    /\ UNCHANGED <<json_obj, heap, chapters_, entries, li, ops, log, exc>>
    /\ UNCHANGED evars
    /\ UNCHANGED xvars

\* get_entries: self.book.get_meta() and the list `entries`
get_entries_meta ==
    /\ pc = "get_meta"
    /\ IF AddBothRaises(new_meta(heap, BookId), BookId, meta_contains(heap, BookId),
                        Len(heap) + 1, meta_container(heap, BookId))
       THEN /\ pc' = "raised"
            /\ exc' = "InvalidReferenceError"
            /\ UNCHANGED <<heap, entries, li>>
       ELSE /\ heap' = get_meta(heap, BookId)
            /\ entries' = entries_list(BookId, Len(heap) + 1, chapters_, paragraphs_)
            /\ li' = 1
            /\ pc' = "load_batch"
            /\ UNCHANGED exc
    /\ UNCHANGED <<json_obj, ci, pi, chapters_, cur, paragraphs_, ops, log>>
    /\ UNCHANGED evars
    /\ UNCHANGED xvars

(***************************************************************************)
(* loaders/common/util.py                                                  *)
(***************************************************************************)
\* batch.add_data_object(class_name, data_object, uuid)
add_data_object(class_name, data_object, id) ==
    [op |-> "add_data_object", class_name |-> class_name,
     data_object |-> data_object, uuid |-> id]

\* batch.add_reference(...)
add_reference(from_class, from_uuid, from_property, to_class, to_uuid) ==
    [op |-> "add_reference",
     from_object_class_name |-> from_class, from_object_uuid |-> from_uuid,
     from_property_name |-> from_property,
     to_object_class_name |-> to_class, to_object_uuid |-> to_uuid]

\* batch.flush()
flush == [op |-> "flush"]

\* `if ref.on_child_property:`: None and the empty string are false
Truthy(v) == v \notin {None, ""}

\* mutant of resolve_references: the mirrored link is issued before the forward one
RECURSIVE resolve_references_BackFirst(_, _)
resolve_references_BackFirst(h, references) ==
    IF references = <<>> THEN <<>>
    ELSE LET ref == Head(references)
             forward == add_reference(h[ref.parent].class_name, uuid(h[ref.parent]),
                                      ref.on_parent_property,
                                      h[ref.child].class_name, uuid(h[ref.child]))
             back == add_reference(h[ref.child].class_name, uuid(h[ref.child]),
                                   ref.on_child_property,
                                   h[ref.parent].class_name, uuid(h[ref.parent]))
         IN  (IF Truthy(ref.on_child_property) THEN <<back, forward>> ELSE <<forward>>)
             \o resolve_references_BackFirst(h, Tail(references))

\* WeaviateImporter.resolve_references: the calls it issues for `references`
RECURSIVE resolve_references(_, _)
resolve_references(h, references) ==
    IF references = <<>> THEN <<>>
    ELSE LET ref == Head(references)
             forward == add_reference(h[ref.parent].class_name, uuid(h[ref.parent]),
                                      ref.on_parent_property,
                                      h[ref.child].class_name, uuid(h[ref.child]))
             back == add_reference(h[ref.child].class_name, uuid(h[ref.child]),
                                   ref.on_child_property,
                                   h[ref.parent].class_name, uuid(h[ref.parent]))
         IN  (IF Truthy(ref.on_child_property) THEN <<forward, back>> ELSE <<forward>>)
             \o resolve_references(h, Tail(references))

\* what the connector does with the calls of one load_entry
Outcomes == {"ok", "insert_error", "unreachable"}

\* WeaviateImporter.load_entry(entry): the calls issued, by the connector's outcome.
\* Only AssertionError is caught; what the connector raises leaves the try block,
\* the finally clause flushes, and the exception propagates.
load_entry_ops(h, e, outcome) ==
    LET ado == add_data_object(h[e].class_name, entry(h[e]), uuid(h[e])) IN
    CASE outcome = "ok" ->
            <<ado>> \o resolve_references(h, h[e].references) \o <<flush>>
      [] outcome = "insert_error" -> <<ado, flush>>
      [] outcome = "unreachable" ->
            <<ado>> \o resolve_references(h, h[e].references) \o <<flush>>

load_entry_exc(outcome) ==
    CASE outcome = "ok" -> None
      [] outcome = "insert_error" -> "InsertError"
      [] outcome = "unreachable" -> "ConnectionError"

\* one iteration of WeaviateImporter.load_batch: load_entry of entry li
load_batch ==
    /\ pc = "load_batch"
    /\ li <= Len(entries)
    /\ \E outcome \in Outcomes :
        /\ ops' = ops \o load_entry_ops(heap, entries[li], outcome)
        /\ log' = Append(log, [level |-> "info", msg |-> "Inserting",
                               entry |-> entries[li]])
        /\ exc' = load_entry_exc(outcome)
        /\ IF outcome # "ok"
           THEN pc' = "raised" /\ UNCHANGED li
           ELSE /\ li' = li + 1
                /\ pc' = IF li = Len(entries) THEN "done" ELSE "load_batch"
    /\ UNCHANGED <<json_obj, heap, ci, pi, chapters_, cur, paragraphs_, entries>>
    /\ UNCHANGED evars
    /\ UNCHANGED xvars

\* loaders.gutenberg.main: book = Book(json_obj, class_name), importer.run()
Init ==
    /\ json_obj \in Books
    /\ heap = <<Entry(json_obj, "Book")>>
    /\ pc = "get_chapters"
    /\ ci = 1
    /\ pi = 1
    /\ chapters_ = <<>>
    /\ cur = <<>>
    /\ paragraphs_ = <<>>
    /\ entries = <<>>
    /\ li = 1
    /\ ops = <<>>
    /\ log = <<>>
    /\ exc = None
    /\ soup = <<>>
    /\ clean = <<>>
    /\ ei = 1
    /\ ret = <<>>
    /\ doc = None
    /\ compiled = None
    /\ extract = None
    /\ fs = None
    /\ scan = None
    /\ calls = 1
    /\ args = <<>>

Next ==
    \/ get_entries_chapters
    \/ get_entries_reduce
    \/ get_entries_paragraphs
    \/ get_entries_concat
    \/ get_entries_meta
    \/ load_batch

Spec == Init /\ [][Next]_vars

(***************************************************************************)
(* WeaviateImporter.run on a single Entry: load_entry(self.data_object).   *)
(* The Entry is object 1, a Chapter, and object 2 is a Paragraph; the      *)
(* reference list of the Entry is one that add_references can have built:  *)
(* distinct References with the Entry as parent or child.                  *)
(***************************************************************************)
EntryReferences ==
    {Reference(pc_[1], pc_[2], pp, cp) :
        pc_ \in {<<1, 2>>, <<2, 1>>},
        pp \in {"paragraphs", "containedIn"},
        cp \in {None, "containedIn", "paragraphs"}}

EntryReferenceLists ==
    {refs \in UNION {[1..n -> EntryReferences] : n \in 0..MaxRefs} :
        \A i, j \in 1..Len(refs) : i # j => refs[i] # refs[j]}

InitEntry ==
    /\ json_obj = None
    /\ \E refs \in EntryReferenceLists, t \in Texts :
          heap = <<[Entry(ChapterDict(1, "x y", <<t>>), "Chapter")
                        EXCEPT !.references = refs],
                   Entry([seq |-> 1, text |-> t], "Paragraph")>>
    /\ pc = "run_entry"
    /\ ci = 1
    /\ pi = 1
    /\ chapters_ = <<>>
    /\ cur = <<>>
    /\ paragraphs_ = <<>>
    /\ entries = <<>>
    /\ li = 1
    /\ ops = <<>>
    /\ log = <<>>
    /\ exc = None
    /\ soup = <<>>
    /\ clean = <<>>
    /\ ei = 1
    /\ ret = <<>>
    /\ doc = None
    /\ compiled = None
    /\ extract = None
    /\ fs = None
    /\ scan = None
    /\ calls = 0
    /\ args = <<>>

\* WeaviateImporter.run, data_object an Entry
run_entry ==
    /\ pc = "run_entry"
    /\ \E outcome \in Outcomes :
        /\ ops' = ops \o load_entry_ops(heap, 1, outcome)
        /\ log' = Append(log, [level |-> "info", msg |-> "Inserting", entry |-> 1])
        /\ exc' = load_entry_exc(outcome)
        /\ pc' = IF outcome = "ok" THEN "entry_done" ELSE "raised"
    /\ UNCHANGED <<json_obj, heap, ci, pi, chapters_, cur, paragraphs_, entries, li>>
    /\ UNCHANGED evars
    /\ UNCHANGED xvars

NextEntry == run_entry

SpecEntry == InitEntry /\ [][NextEntry]_vars

(***************************************************************************)
(* extractors/common.py and extractors/gutenberg_html.py                   *)
(*                                                                         *)
(* A text is a sequence of characters. The characters that the cleaning    *)
(* changes are written by name: "LF" is the line feed, "LDQUO" and "RDQUO" *)
(* the curly double quotes U+201C and U+201D, "QUOT" the straight double   *)
(* quote, and "ELLIPSIS" the character U+2026, which NFKD decomposes into  *)
(* three full stops.                                                       *)
(***************************************************************************)
Chars == {"a", "LF", "LDQUO", "ELLIPSIS"}

\* the markup of a document: the start of a div of class chapter, the start of
\* a p, and characters of text
Tokens == {"<div>", "<p>"} \cup Chars

\* the markups of n tokens
Markups(n) == [1..n -> Tokens]

\* BeautifulSoup(...).find_all("div", "chapter") and, in each, find_all("p") with
\* get_text(): a p belongs to the chapter div opened last, text belongs to the p
\* opened last, and a p outside every chapter div is not found
RECURSIVE Parse(_, _, _)
Parse(m, chs, in_p) ==
    IF m = <<>> THEN chs
    ELSE LET t == Head(m)
             n == Len(chs)
         IN
         IF t = "<div>"
         THEN Parse(Tail(m), Append(chs, [h2 |-> NoText, p |-> <<>>]), FALSE)
         ELSE IF t = "<p>"
         THEN IF n = 0 THEN Parse(Tail(m), chs, FALSE)
              ELSE Parse(Tail(m), [chs EXCEPT ![n].p = Append(@, <<>>)], TRUE)
         ELSE IF in_p
              THEN Parse(Tail(m),
                         [chs EXCEPT ![n].p[Len(chs[n].p)] = Append(@, t)], TRUE)
              ELSE Parse(Tail(m), chs, in_p)

\* re.compile("[“”]").sub('"', ret)
RECURSIVE quotation_substitution(_)
quotation_substitution(text) ==
    IF text = <<>> THEN <<>>
    ELSE <<IF Head(text) \in {"LDQUO", "RDQUO"} THEN "QUOT" ELSE Head(text)>>
         \o quotation_substitution(Tail(text))

\* unicodedata.normalize("NFKD", ret): the compatibility decomposition
RECURSIVE NFKD(_)
NFKD(text) ==
    IF text = <<>> THEN <<>>
    ELSE (IF Head(text) = "ELLIPSIS" THEN <<".", ".", ".">> ELSE <<Head(text)>>)
         \o NFKD(Tail(text))

Whitespace == {" ", "LF"}

RECURSIVE lstrip(_)
lstrip(text) ==
    IF text # <<>> /\ Head(text) \in Whitespace THEN lstrip(Tail(text)) ELSE text

RECURSIVE rstrip(_)
rstrip(text) ==
    IF text # <<>> /\ text[Len(text)] \in Whitespace
    THEN rstrip(SubSeq(text, 1, Len(text) - 1))
    ELSE text

\* str.strip()
strip(text) == rstrip(lstrip(text))

\* Extractor.clean_soup
clean_soup(text) == strip(NFKD(quotation_substitution(text)))

\* ret.replace("\n", " ")
replace_newlines(text) == [i \in 1..Len(text) |-> IF text[i] = "LF" THEN " " ELSE text[i]]

\* GutenbergExtractor.clean_paragraph
clean_paragraph(text) == replace_newlines(clean_soup(text))

\* " ".join(texts)
RECURSIVE join(_)
join(texts) ==
    IF texts = <<>> THEN <<>>
    ELSE IF Len(texts) = 1 THEN texts[1]
    ELSE texts[1] \o <<" ">> \o join(Tail(texts))

\* the prefix of a text up to its first line feed: what `.*` matches
RECURSIVE line(_)
line(text) ==
    IF text = <<>> \/ Head(text) = "LF" THEN <<>>
    ELSE <<Head(text)>> \o line(Tail(text))

\* Chapters.get_title: group 1 of "(?:.*?)?(?:\\n|\n)?(.*)" matched at the start
\* of the text of the first h2; None when the tag has no h2
get_title(tag) ==
    IF tag.h2 = NoText THEN NoText
    ELSE IF tag.h2 # <<>> /\ Head(tag.h2) = "LF" THEN line(Tail(tag.h2))
    ELSE line(tag.h2)

\* mutant of is_empty: a text of 3 characters counts as empty too
is_empty_UpTo3(paragraph) == Len(paragraph) \in {0, 1, 2, 3}

\* is_empty of Chapters.clean_chapters
is_empty(paragraph) == Len(paragraph) \in {0, 1, 2}

\* mutant of the text of a chapter: the paragraphs that the paragraph filter keeps
chapter_text_OfKept(chap) ==
    clean_paragraph(join(SelectSeq(chap.p, LAMBDA t : Len(clean_paragraph(t)) >= 3)))

\* the text of a chapter in Chapters.clean_chapters
chapter_text(chap) == clean_paragraph(join(chap.p))

\* mutant of build_paragraph_set: seq counts the dropped paragraphs too
RECURSIVE build_paragraph_set_Positions(_, _)
build_paragraph_set_Positions(paragraphs, seq) ==
    IF paragraphs = <<>> THEN <<>>
    ELSE LET para == clean_paragraph(Head(paragraphs)) IN
         IF Len(para) \in {0, 1, 2}
         THEN build_paragraph_set_Positions(Tail(paragraphs), seq + 1)
         ELSE <<[seq |-> seq, text |-> para]>>
              \o build_paragraph_set_Positions(Tail(paragraphs), seq + 1)

\* Paragraphs.build_paragraph_set, from `seq` on
RECURSIVE build_paragraph_set(_, _)
build_paragraph_set(paragraphs, seq) ==
    IF paragraphs = <<>> THEN <<>>
    ELSE LET para == clean_paragraph(Head(paragraphs)) IN
         IF Len(para) \in {0, 1, 2}
         THEN build_paragraph_set(Tail(paragraphs), seq)
         ELSE <<[seq |-> seq, text |-> para]>>
              \o build_paragraph_set(Tail(paragraphs), seq + 1)

\* Paragraphs(paragraphs).get()
Paragraphs_get(paragraphs) == build_paragraph_set(paragraphs, 1)

\* Chapters(self.chapters), the document parsed
InitExtract ==
    /\ \E n \in 0..MaxMarkup : \E m \in Markups(n) : soup = Parse(m, <<>>, FALSE)
    /\ clean = <<>>
    /\ ei = 1
    /\ ret = <<>>
    /\ pc = "clean_chapters"
    /\ doc = None
    /\ compiled = None
    /\ extract = None
    /\ fs = None
    /\ scan = None
    /\ calls = 0
    /\ args = <<>>
    /\ json_obj = None
    /\ heap = <<>>
    /\ ci = 1
    /\ pi = 1
    /\ chapters_ = <<>>
    /\ cur = <<>>
    /\ paragraphs_ = <<>>
    /\ entries = <<>>
    /\ li = 1
    /\ ops = <<>>
    /\ log = <<>>
    /\ exc = None

\* Chapters.clean_chapters: one iteration of its loop, and its return
clean_chapters ==
    /\ pc = "clean_chapters"
    /\ IF ei <= Len(soup)
       THEN /\ clean' = IF ~is_empty(chapter_text(soup[ei]))
                        THEN Append(clean, [title |-> get_title(soup[ei]),
                                            text |-> chapter_text(soup[ei]),
                                            paragraphs |-> soup[ei].p])
                        ELSE clean
            /\ ei' = ei + 1
            /\ UNCHANGED pc
       ELSE /\ pc' = "get"
            /\ ei' = 1
            /\ UNCHANGED clean
    /\ UNCHANGED <<soup, ret>>
    /\ UNCHANGED lvars_but_pc
    /\ UNCHANGED xvars

\* Chapters.get: one iteration of its loop over enumerate(clean_chapters, 1), and
\* its return
get ==
    /\ pc = "get"
    /\ IF ei <= Len(clean)
       THEN /\ ret' = Append(ret, [title |-> clean[ei].title,
                                   seq |-> ei,
                                   text |-> clean[ei].text,
                                   paragraphs |-> Paragraphs_get(clean[ei].paragraphs)])
            /\ ei' = ei + 1
            /\ UNCHANGED pc
       ELSE /\ pc' = "extracted"
            /\ UNCHANGED <<ei, ret>>
    /\ UNCHANGED <<soup, clean>>
    /\ UNCHANGED lvars_but_pc
    /\ UNCHANGED xvars

NextExtract ==
    \/ clean_chapters
    \/ get

SpecExtract == InitExtract /\ [][NextExtract]_vars


(***************************************************************************)
(* Chapters.get over chapters that have a level-2 heading. The text of a   *)
(* heading is a sequence of characters: "1" stands for a character of the  *)
(* chapter-number line, "L" for a character of the name of the chapter.    *)
(***************************************************************************)
HeadingChars == {"1", "L", "LF"}

\* tag.find("h2").get_text() of a chapter tag: None when it has no h2
Headings == {NoText} \cup UNION {[1..n -> HeadingChars] : n \in 0..MaxHeading}

\* Chapters(self.chapters) for a document of one chapter, which has one paragraph
\* of three characters
InitTitle ==
    /\ \E h \in Headings : soup = <<[h2 |-> h, p |-> <<<<"a", "a", "a">>>>]>>
    /\ clean = <<>>
    /\ ei = 1
    /\ ret = <<>>
    /\ pc = "clean_chapters"
    /\ json_obj = None
    /\ heap = <<>>
    /\ ci = 1
    /\ pi = 1
    /\ chapters_ = <<>>
    /\ cur = <<>>
    /\ paragraphs_ = <<>>
    /\ entries = <<>>
    /\ li = 1
    /\ ops = <<>>
    /\ log = <<>>
    /\ exc = None
    /\ doc = None
    /\ compiled = None
    /\ extract = None
    /\ fs = None
    /\ scan = None
    /\ calls = 0
    /\ args = <<>>

SpecTitle == InitTitle /\ [][NextExtract]_vars


(***************************************************************************)
(* Book.get of extractors/gutenberg_html.py.                               *)
(*                                                                         *)
(* A text is a sequence of characters; where the letters of a word are not *)
(* examined, the word is written as one element. The document is its meta  *)
(* tags, the tags of its body in document order, each with the name of its *)
(* parent, and its chapter tags (the variable soup).                       *)
(***************************************************************************)
AnnotationNames ==
    {"dc.title", "dc.creator", "dc.language", "dc.subject", "dcterms.source",
     "dcterms.modified", "dc.rights"}

\* the values of the attribute content of the modified annotation
DateStrings ==
    {NoText,
     <<"2", "0", "2", "1", "-", "0", "5", "-", "0", "1">>,
     <<"2", "0", "2", "1", "-", "0", "5", "-", "0", "1", "T", "1", "0">>,
     <<"2", "0", "2", "4", "-", "2", "-", "2", "9">>,
     <<"2", "0", "2", "1", "-", "0", "2", "-", "3", "0">>,
     <<"2", "0", "2", "1", "-", "1", "3", "-", "0", "1">>,
     <<"M", "a", "y", " ", "2", "0", "2", "1">>}

\* the values of the attribute content of each annotation: None stands for a
\* document without a meta tag of that name, or whose first one has no content
Contents(name) ==
    CASE name = "dc.title" -> {NoText, <<"Moby-Dick">>}
      [] name = "dc.creator" -> {NoText, <<"Melville", ",", " ", "Herman">>}
      [] name = "dc.language" -> {NoText, <<"en">>}
      [] name = "dc.subject" -> {NoText, <<"Whaling">>}
      [] name = "dcterms.source" -> {NoText, <<"http://example">>}
      [] name = "dcterms.modified" -> DateStrings
      [] name = "dc.rights" -> {NoText, <<"Public", " ", "domain">>}

\* the meta tags of a document, by name
MetaTags(title, creator, language, subject, source, modified, rights) ==
    [n \in AnnotationNames |->
        CASE n = "dc.title" -> title
          [] n = "dc.creator" -> creator
          [] n = "dc.language" -> language
          [] n = "dc.subject" -> subject
          [] n = "dcterms.source" -> source
          [] n = "dcterms.modified" -> modified
          [] n = "dc.rights" -> rights]

Metas ==
    {MetaTags(t, c, l, s, src, m, r) :
        t \in Contents("dc.title"), c \in Contents("dc.creator"),
        l \in Contents("dc.language"), s \in Contents("dc.subject"),
        src \in Contents("dcterms.source"), m \in Contents("dcterms.modified"),
        r \in Contents("dc.rights")}

\* get_text() of the i-th tag of the body
BodyText(i) ==
    CASE i = 1 -> <<"by", " ", "Herman", " ", "Melville">>
      [] i = 2 -> <<"MOBY", " ", "Dick", ";", " ", "Or", " ", "the", " ", "Whale">>
      [] OTHER -> <<"Ishmael">>

\* the headings of the document, in document order: h1 and h2 tags, children of
\* body or of a div
Bodies ==
    UNION {{[i \in 1..n |-> [name |-> f[i][1], parent |-> f[i][2], text |-> BodyText(i)]] :
               f \in [1..n -> {"h1", "h2"} \X {"body", "div"}]} : n \in 0..MaxBody}

\* Book.get_meta: the content of the first meta tag of that name, None on
\* AttributeError
Book_get_meta(d, name) == d.meta[name]

\* self.soup.find(f).get_text(): the text of the first tag of the document that
\* satisfies f, None on AttributeError
RECURSIVE find_text(_, _, _)
find_text(body, name, parent) ==
    IF body = <<>> THEN NoText
    ELSE IF Head(body).name = name /\ Head(body).parent = parent THEN Head(body).text
    ELSE find_text(Tail(body), name, parent)

\* Book.title
Book_title(d) == find_text(d.body, "h1", "body")

\* the words that [A-Z][a-z\-']+ matches whole; it matches nowhere in the others
Capitalized == {"Herman", "Melville", "Dick", "Or", "Whale", "Ishmael"}

\* the end of the match of (?:[A-Z][a-z\-']+\s?){1,} that starts at place i of
\* the text, i - 1 when there is none there: a capitalized word, one white space
\* character if there is one, and so on as long as capitalized words follow
RECURSIVE match_end(_, _)
match_end(text, i) ==
    IF i > Len(text) \/ text[i] \notin Capitalized THEN i - 1
    ELSE IF i + 1 <= Len(text) /\ text[i + 1] \in Whitespace
         THEN IF match_end(text, i + 2) >= i + 2 THEN match_end(text, i + 2) ELSE i + 1
         ELSE IF match_end(text, i + 1) >= i + 1 THEN match_end(text, i + 1) ELSE i

\* reg.findall(text) from place i on
RECURSIVE findall(_, _)
findall(text, i) ==
    IF i > Len(text) THEN <<>>
    ELSE IF match_end(text, i) >= i
         THEN <<SubSeq(text, i, match_end(text, i))>> \o findall(text, match_end(text, i) + 1)
         ELSE findall(text, i + 1)

\* Book.author
Book_author(d) ==
    IF find_text(d.body, "h2", "body") = NoText THEN NoText
    ELSE findall(find_text(d.body, "h2", "body"), 1)

Digits == <<"0", "1", "2", "3", "4", "5", "6", "7", "8", "9">>

IsDigit(c) == \E i \in 1..10 : Digits[i] = c

DigitValue(c) == (CHOOSE i \in 1..10 : Digits[i] = c) - 1

\* the number a sequence of digits denotes
RECURSIVE Number(_)
Number(s) ==
    IF s = <<>> THEN 0 ELSE 10 * Number(SubSeq(s, 1, Len(s) - 1)) + DigitValue(s[Len(s)])

\* what %m of strptime matches: 1[0-2]|0[1-9]|[1-9]
IsMonth(s) ==
    /\ Len(s) \in {1, 2}
    /\ \A i \in 1..Len(s) : IsDigit(s[i])
    /\ Number(s) \in 1..12

\* what %d of strptime matches: 3[01]|[12]\d|0[1-9]|[1-9]| [1-9]
IsDay(s) ==
    \/ /\ Len(s) \in {1, 2}
       /\ \A i \in 1..Len(s) : IsDigit(s[i])
       /\ Number(s) \in 1..31
    \/ /\ Len(s) = 2
       /\ s[1] = " "
       /\ IsDigit(s[2])
       /\ Number(<<s[2]>>) \in 1..9

DaysInMonth(y, m) ==
    IF m = 2
    THEN IF (y % 4 = 0 /\ y % 100 # 0) \/ y % 400 = 0 THEN 29 ELSE 28
    ELSE IF m \in {4, 6, 9, 11} THEN 30 ELSE 31

\* the place of the first "-" of s, 0 when it has none
FirstDash(s) ==
    IF \E i \in 1..Len(s) : s[i] = "-"
    THEN CHOOSE i \in 1..Len(s) : s[i] = "-" /\ \A j \in 1..(i - 1) : s[j] # "-"
    ELSE 0

\* datetime.strptime(s, "%Y-%m-%d"): year, month and day, or <<>> on ValueError
strptime(s) ==
    IF Len(s) < 6 \/ s[5] # "-" \/ \E i \in 1..4 : ~IsDigit(s[i]) THEN <<>>
    ELSE LET r == SubSeq(s, 6, Len(s))
             k == FirstDash(r)
         IN
         IF k = 0 THEN <<>>
         ELSE LET y == Number(SubSeq(s, 1, 4))
                  ms == SubSeq(r, 1, k - 1)
                  ds == SubSeq(r, k + 1, Len(r))
              IN
              IF ~IsMonth(ms) \/ ~IsDay(ds) \/ y < 1 THEN <<>>
              ELSE LET m == Number(ms)
                       dd == Number(IF ds[1] = " " THEN <<ds[2]>> ELSE ds)
                   IN  IF dd > DaysInMonth(y, m) THEN <<>> ELSE <<y, m, dd>>

MonthAbbr ==
    <<"Jan", "Feb", "Mar", "Apr", "May", "Jun", "Jul", "Aug", "Sep", "Oct", "Nov", "Dec">>

\* the n digits of a number, zero-padded
RECURSIVE Padded(_, _)
Padded(x, n) ==
    IF n = 0 THEN <<>> ELSE Padded(x \div 10, n - 1) \o <<Digits[(x % 10) + 1]>>

\* the digits of a number, without leading zeros
RECURSIVE Decimal(_)
Decimal(x) ==
    IF x < 10 THEN <<Digits[x + 1]>> ELSE Decimal(x \div 10) \o <<Digits[(x % 10) + 1]>>

\* .strftime("%b %d, %Y"): %d is zero-padded, %Y of the C library is not
strftime(t) ==
    <<MonthAbbr[t[2]], " ">> \o Padded(t[3], 2) \o <<",", " ">> \o Decimal(t[1])

\* Book.convert_date: TypeError for None, ValueError for what does not parse
convert_date(date_string) ==
    IF date_string = NoText THEN NoText
    ELSE LET t == strptime(SubSeq(date_string, 1, IF Len(date_string) < 10
                                                  THEN Len(date_string) ELSE 10))
         IN  IF t = <<>> THEN NoText ELSE strftime(t)

\* mutant of str: a missing component is skipped
str_Skipped(v) == IF v = NoText THEN <<>> ELSE v

\* str(v) in an f-string
str(v) == IF v = NoText THEN <<"N", "o", "n", "e">> ELSE v

\* mutant of the f-string of Book.get: the title is the one of the Document, the
\* heading when the annotation is missing
citation_of_TitleResolved(rights, author, title, retrieved, source) ==
    str(rights) \o <<" ">> \o str(author) \o <<".", " ">>
    \o str(IF title # NoText THEN title ELSE Book_title(doc))
    \o <<".", " ", "Urbana, Illinois: Project Gutenberg", ".", " ", "Retrieved", " ">>
    \o str(retrieved) \o <<" ", "from", " ">> \o str(source)

\* the f-string of Book.get
citation_of(rights, author, title, retrieved, source) ==
    str(rights) \o <<" ">> \o str(author) \o <<".", " ">> \o str(title)
    \o <<".", " ", "Urbana, Illinois: Project Gutenberg", ".", " ", "Retrieved", " ">>
    \o str(retrieved) \o <<" ", "from", " ">> \o str(source)

\* mutant of the "title" item of the dictionary of Book.get: the heading first
title_item_HeadingFirst(title, d) == IF Book_title(d) # NoText THEN Book_title(d) ELSE title

\* "title": title if title is not None else self.title
title_item(title, d) == IF title # NoText THEN title ELSE Book_title(d)

\* "author": author if author is not None else self.author
author_item(author, d) == IF author # NoText THEN author ELSE Book_author(d)

\* the documents Book is constructed on
InitBook ==
    /\ \E m \in Metas, b \in Bodies : doc = [meta |-> m, body |-> b]
    /\ soup \in {<<>>, <<[h2 |-> NoText, p |-> <<<<"a", "a", "a">>>>]>>}
    /\ compiled = <<>>
    /\ pc = "Book_get"
    /\ clean = <<>>
    /\ ei = 1
    /\ ret = <<>>
    /\ json_obj = None
    /\ heap = <<>>
    /\ ci = 1
    /\ pi = 1
    /\ chapters_ = <<>>
    /\ cur = <<>>
    /\ paragraphs_ = <<>>
    /\ entries = <<>>
    /\ li = 1
    /\ ops = <<>>
    /\ log = <<>>
    /\ exc = None
    /\ extract = None
    /\ fs = None
    /\ scan = None
    /\ calls = 0
    /\ args = <<>>

\* Book.get up to the dictionary it returns: the annotations read and the
\* citation built
Book_get ==
    /\ pc = "Book_get"
    /\ LET title == Book_get_meta(doc, "dc.title")
           author == Book_get_meta(doc, "dc.creator")
           language == Book_get_meta(doc, "dc.language")
           subject == Book_get_meta(doc, "dc.subject")
           source == Book_get_meta(doc, "dcterms.source")
           retrieved == convert_date(Book_get_meta(doc, "dcterms.modified"))
           rights == Book_get_meta(doc, "dc.rights")
       IN  compiled' = [title |-> title, author |-> author, language |-> language,
                        subject |-> subject,
                        citation |-> citation_of(rights, author, title, retrieved, source)]
    /\ pc' = "clean_chapters"
    /\ UNCHANGED <<doc, extract, fs, scan, calls, args>>
    /\ UNCHANGED evars
    /\ UNCHANGED lvars_but_pc

\* Book.get: the dictionary returned, Chapters(self.chapters).get() being done
Book_get_return ==
    /\ pc = "extracted"
    /\ compiled' = [title |-> title_item(compiled.title, doc),
                    author |-> author_item(compiled.author, doc),
                    meta |-> [language |-> compiled.language,
                              subject |-> compiled.subject,
                              citation |-> compiled.citation],
                    chapters |-> ret]
    /\ pc' = "compiled"
    /\ UNCHANGED <<doc, extract, fs, scan, calls, args>>
    /\ UNCHANGED evars
    /\ UNCHANGED lvars_but_pc

NextBook ==
    \/ Book_get
    \/ clean_chapters
    \/ get
    \/ Book_get_return

SpecBook == InitBook /\ [][NextBook]_vars


(***************************************************************************)
(* Entry.add_references called by itself, next to the calls the flattening *)
(* makes. Object 1 is a Chapter, the receiver; objects 2 and 3 are         *)
(* Paragraphs. The reference list of the receiver is one that              *)
(* add_references can have built, and the argument is any list of          *)
(* References between the three objects.                                   *)
(***************************************************************************)
NewReferences ==
    {Reference(p, c, "containedIn", None) : <<p, c>> \in {pc_ \in (1..3) \X (1..3) : pc_[1] # pc_[2]}}

NewReferenceLists == UNION {[1..n -> NewReferences] : n \in 0..MaxRefs}

StoredReferenceLists ==
    {refs \in NewReferenceLists :
        /\ \A i \in 1..Len(refs) : refs[i].parent = 1 \/ refs[i].child = 1
        /\ \A i, j \in 1..Len(refs) : i # j => refs[i] # refs[j]}

InitAddReferences ==
    /\ json_obj = None
    /\ \E refs \in StoredReferenceLists :
          heap = <<[Entry(ChapterDict(1, "x y", <<"x", "y">>), "Chapter")
                        EXCEPT !.references = refs],
                   Entry([seq |-> 1, text |-> "x"], "Paragraph"),
                   Entry([seq |-> 2, text |-> "y"], "Paragraph")>>
    /\ args \in NewReferenceLists
    /\ pc = "add_references"
    /\ ci = 1
    /\ pi = 1
    /\ chapters_ = <<>>
    /\ cur = <<>>
    /\ paragraphs_ = <<>>
    /\ entries = <<>>
    /\ li = 1
    /\ ops = <<>>
    /\ log = <<>>
    /\ exc = None
    /\ soup = <<>>
    /\ clean = <<>>
    /\ ei = 1
    /\ ret = <<>>
    /\ doc = None
    /\ compiled = None
    /\ extract = None
    /\ fs = None
    /\ scan = None
    /\ calls = 0

\* self.add_references(references), self being object 1: the references before
\* the one that raises are stored
add_references_call ==
    /\ pc = "add_references"
    /\ heap' = [heap EXCEPT ![1].references = add_references(1, @, args)]
    /\ IF InvalidReference(1, heap[1].references, args)
       THEN pc' = "raised" /\ exc' = "InvalidReferenceError"
       ELSE pc' = "added" /\ UNCHANGED exc
    /\ UNCHANGED <<json_obj, ci, pi, chapters_, cur, paragraphs_, entries, li, ops, log>>
    /\ UNCHANGED evars
    /\ UNCHANGED xvars

InitRefs ==
    \/ Init
    \/ InitAddReferences

NextRefs ==
    \/ Next
    \/ add_references_call

SpecRefs == InitRefs /\ [][NextRefs]_vars


(***************************************************************************)
(* Extract.run of utils/extractor.py, on an Extract object that has an     *)
(* extractor.                                                              *)
(*                                                                         *)
(* A file name is the sequence of its stem and its extensions, a path the  *)
(* sequence of a directory and, for what is in it, a file name. The file   *)
(* system gives the content at each path that exists: <<"dir">> for a      *)
(* directory, <<"html", name>> for a document, <<"old">> for a file that   *)
(* was there before the run, <<"json", name>> for the book extracted from  *)
(* the document of that name.                                              *)
(***************************************************************************)
Stems == <<"a", "b", "c", "d", "e">>

HtmlNames == {<<Stems[i], ".html">> : i \in 1..MaxFiles}

Names == HtmlNames \cup {<<"notes", ".txt">>}

\* input_filename.replace(".html", ".json"): every occurrence
replace_html(name) ==
    [i \in 1..Len(name) |-> IF name[i] = ".html" THEN ".json" ELSE name[i]]

\* name.endswith(".html")
endswith_html(name) == name[Len(name)] = ".html"

os_path_exists(h, path) == path \in DOMAIN h

os_path_isdir(h, path) == path \in DOMAIN h /\ h[path] = <<"dir">>

os_path_join(dir, name) == <<dir[1], name>>

\* os.path.split(file)[-1]
os_path_split_last(path) == path[Len(path)]

\* the file system with `content` at `path`
written(h, path, content) ==
    [q \in DOMAIN h \cup {path} |-> IF q = path THEN content ELSE h[q]]

\* the file systems and the Extract objects run is called on: the input is a
\* directory of documents and other files, or one file; the output is a
\* directory that holds books of earlier runs, or the path of one file
InputDir == <<"in">>

OutputDir == <<"out">>

OutputFile == <<"out.json">>

FileSystems ==
    {[q \in {InputDir, OutputDir} \cup {os_path_join(InputDir, n) : n \in ins}
            \cup {os_path_join(OutputDir, replace_html(n)) : n \in outs}
            \cup file |->
        IF q \in {InputDir, OutputDir} THEN <<"dir">>
        ELSE IF q[1] = InputDir[1] THEN <<"html", q[2]>>
        ELSE <<"old">>] :
        ins \in SUBSET Names, outs \in SUBSET HtmlNames, file \in SUBSET {OutputFile}}

Extracts(h) ==
    {[input |-> i, output |-> o, extractor |-> "GutenbergExtractor", overwrite |-> w] :
        i \in {InputDir} \cup {p \in DOMAIN h : Len(p) = 2 /\ p[1] = InputDir[1]},
        o \in {OutputDir, OutputFile},
        w \in BOOLEAN}

\* the orders in which os.scandir can yield the entries of a directory
Listings(h, dir) ==
    LET S == {p \in DOMAIN h : Len(p) = 2 /\ p[1] = dir[1]} IN
    {s \in [1..Cardinality(S) -> S] : \A i, j \in 1..Cardinality(S) : i # j => s[i] # s[j]}

\* Extract.output_filepath
output_filepath(x, h, file) ==
    IF os_path_isdir(h, x.output)
    THEN os_path_join(x.output, replace_html(os_path_split_last(file)))
    ELSE x.output

\* mutant of the test of run: the overwrite flag is not looked at
output_collides_WhateverTheFlag(x, h, out) == os_path_exists(h, out)

\* os.path.exists(out) and not self.overwrite
output_collides(x, h, out) == os_path_exists(h, out) /\ ~x.overwrite

\* self.extractor(path).extract(out): the document is compiled and the book
\* written to out
extractor_extract(h, path, out) == written(h, out, <<"json", os_path_split_last(path)>>)

InitRun ==
    /\ fs \in FileSystems
    /\ extract \in Extracts(fs)
    /\ scan = <<>>
    /\ pc = "run"
    /\ exc = None
    /\ json_obj = None
    /\ heap = <<>>
    /\ ci = 1
    /\ pi = 1
    /\ chapters_ = <<>>
    /\ cur = <<>>
    /\ paragraphs_ = <<>>
    /\ entries = <<>>
    /\ li = 1
    /\ ops = <<>>
    /\ log = <<>>
    /\ soup = <<>>
    /\ clean = <<>>
    /\ ei = 1
    /\ ret = <<>>
    /\ doc = None
    /\ compiled = None
    /\ calls = 0
    /\ args = <<>>

\* Extract.run: os.scandir(self.input) of a directory, or the whole branch of an
\* input that is one file
run ==
    /\ pc = "run"
    /\ IF os_path_isdir(fs, extract.input)
       THEN /\ scan' \in Listings(fs, extract.input)
            /\ pc' = "scandir"
            /\ UNCHANGED <<fs, exc>>
       ELSE /\ UNCHANGED scan
            /\ IF endswith_html(os_path_split_last(extract.input))
               THEN LET out == output_filepath(extract, fs, extract.input) IN
                    IF output_collides(extract, fs, out)
                    THEN pc' = "raised" /\ exc' = "FileExists" /\ UNCHANGED fs
                    ELSE /\ fs' = extractor_extract(fs, extract.input, out)
                         /\ pc' = "ran"
                         /\ UNCHANGED exc
               ELSE pc' = "raised" /\ exc' = "FileUnsupported" /\ UNCHANGED fs
    /\ UNCHANGED <<doc, compiled, extract, calls, args>>
    /\ UNCHANGED evars
    /\ UNCHANGED lvars_but_pc_exc

\* Extract.run: one iteration of the loop over os.scandir, and its end
run_scandir ==
    /\ pc = "scandir"
    /\ IF scan = <<>>
       THEN pc' = "ran" /\ UNCHANGED <<fs, scan, exc>>
       ELSE LET file == Head(scan) IN
            IF endswith_html(os_path_split_last(file))
            THEN LET out == output_filepath(extract, fs, file) IN
                 IF output_collides(extract, fs, out)
                 THEN pc' = "raised" /\ exc' = "FileExists" /\ UNCHANGED <<fs, scan>>
                 ELSE /\ fs' = extractor_extract(fs, file, out)
                      /\ scan' = Tail(scan)
                      /\ UNCHANGED <<pc, exc>>
            ELSE scan' = Tail(scan) /\ UNCHANGED <<fs, pc, exc>>
    /\ UNCHANGED <<doc, compiled, extract, calls, args>>
    /\ UNCHANGED evars
    /\ UNCHANGED lvars_but_pc_exc

NextRun ==
    \/ run
    \/ run_scandir

SpecRun == InitRun /\ [][NextRun]_vars


(***************************************************************************)
(* Extract.__init__ of utils/extractor.py and the registry of              *)
(* extractors/__init__.py.                                                 *)
(***************************************************************************)
\* the formats of the subclasses of common.Extractor that extractors/__init__.py
\* imports
Extractor_subclasses == [c \in {"GutenbergExtractor"} |-> [format |-> "gutenberg_html"]]

\* the attributes of the class Extractors: the dictionary `extractors`, from the
\* format of every subclass to the subclass
Extractors ==
    [extractors |->
        [k \in {Extractor_subclasses[c].format : c \in DOMAIN Extractor_subclasses} |->
            CHOOSE c \in DOMAIN Extractor_subclasses : Extractor_subclasses[c].format = k]]

\* Extract.get_extractor: the dictionary {"gutenberg": Extractors.gutenberg} is
\* built first, and the attribute lookup raises AttributeError when the class
\* has no such attribute; then the lookup of name, KeyError becoming
\* ExtractorUnsupported
get_extractor(name) ==
    IF "gutenberg" \notin DOMAIN Extractors
    THEN [exc |-> "AttributeError", extractor |-> None]
    ELSE LET extractors == [k \in {"gutenberg"} |-> Extractors[k]] IN
         IF name \in DOMAIN extractors
         THEN [exc |-> None, extractor |-> extractors[name]]
         ELSE [exc |-> "ExtractorUnsupported", extractor |-> None]

\* the names given with --format
Formats == {"gutenberg", "gutenberg_html", "pdf"}

InitConstruct ==
    /\ fs \in FileSystems
    /\ args \in [input_path : {InputDir}, output_path : {OutputDir, OutputFile},
                 file_format : Formats, overwrite : BOOLEAN]
    /\ extract = None
    /\ scan = <<>>
    /\ pc = "Extract"
    /\ exc = None
    /\ json_obj = None
    /\ heap = <<>>
    /\ ci = 1
    /\ pi = 1
    /\ chapters_ = <<>>
    /\ cur = <<>>
    /\ paragraphs_ = <<>>
    /\ entries = <<>>
    /\ li = 1
    /\ ops = <<>>
    /\ log = <<>>
    /\ soup = <<>>
    /\ clean = <<>>
    /\ ei = 1
    /\ ret = <<>>
    /\ doc = None
    /\ compiled = None
    /\ calls = 0

\* Extract(input_path, output_path, file_format, overwrite)
Extract_init ==
    /\ pc = "Extract"
    /\ LET got == get_extractor(args.file_format) IN
       IF got.exc # None
       THEN pc' = "raised" /\ exc' = got.exc /\ UNCHANGED extract
       ELSE /\ extract' = [input |-> args.input_path, output |-> args.output_path,
                           extractor |-> got.extractor, overwrite |-> args.overwrite]
            /\ pc' = "constructed"
            /\ UNCHANGED exc
    /\ UNCHANGED <<doc, compiled, fs, scan, calls, args>>
    /\ UNCHANGED evars
    /\ UNCHANGED lvars_but_pc_exc

NextConstruct == Extract_init

SpecConstruct == InitConstruct /\ [][NextConstruct]_vars


(***************************************************************************)
(* BookCompilation.get_entries called more than once on the same Book: the *)
(* generator of each call but the last is run to its first yield and       *)
(* dropped, and the last call is the one load_batch iterates.              *)
(***************************************************************************)
\* the generator is dropped before anything is loaded, and get_entries is called
\* again on the same BookCompilation
get_entries_again ==
    /\ pc = "load_batch"
    /\ li = 1
    /\ ops = <<>>
    /\ calls < MaxCalls
    /\ calls' = calls + 1
    /\ pc' = "get_chapters"
    /\ ci' = 1
    /\ pi' = 1
    /\ chapters_' = <<>>
    /\ cur' = <<>>
    /\ paragraphs_' = <<>>
    /\ entries' = <<>>
    /\ UNCHANGED <<json_obj, heap, li, ops, log, exc>>
    /\ UNCHANGED evars
    /\ UNCHANGED <<doc, compiled, extract, fs, scan, args>>

NextAgain ==
    \/ Next
    \/ get_entries_again

SpecAgain == Init /\ [][NextAgain]_vars

(***************************************************************************)
(* Properties of the loader, checked under Spec.                           *)
(***************************************************************************)
NumChapters == Len(json_obj.chapters)

NumParagraphs(c) == Len(json_obj.chapters[c].paragraphs)

\* the number of paragraphs of the chapters before chapter c
RECURSIVE ParagraphsBefore(_)
ParagraphsBefore(c) ==
    IF c <= 1 THEN 0 ELSE ParagraphsBefore(c - 1) + NumParagraphs(c - 1)

TotalParagraphs == ParagraphsBefore(NumChapters + 1)

\* the place in `entries` of chapter c, and of paragraph p of chapter c
ChapterAt(c) == 2 + c

ParagraphAt(c, p) == 2 + NumChapters + ParagraphsBefore(c) + p

\* get_entries has built its list
Flattened == entries # <<>>

IsUpsert(o) == o.op = "add_data_object"

IsFlush(o) == o.op = "flush"

Upserts == SelectSeq(ops, IsUpsert)

\* before call i, the object (class_name, id) was upserted: add_data_object was
\* issued for it, and a flush after that
UpsertedBefore(class_name, id, i) ==
    \E j \in 1..(i - 1) :
        /\ ops[j].op = "add_data_object"
        /\ ops[j].class_name = class_name
        /\ ops[j].uuid = id
        /\ \E k \in (j + 1)..(i - 1) : ops[k].op = "flush"

\* C1: every link operation (add_reference) is issued only after the upserts
\* (add_data_object and flush) of both of its endpoints, parent and child, have
\* been issued in the run.
C1_LinkAfterBothUpserts ==
    \A i \in 1..Len(ops) :
        ops[i].op = "add_reference" =>
            /\ UpsertedBefore(ops[i].from_object_class_name, ops[i].from_object_uuid, i)
            /\ UpsertedBefore(ops[i].to_object_class_name, ops[i].to_object_uuid, i)

ClassAt(i) ==
    IF i = 1 THEN "Book"
    ELSE IF i = 2 THEN "Meta"
    ELSE IF i <= 2 + NumChapters THEN "Chapter"
    ELSE "Paragraph"

DataAt(i) ==
    IF i <= 2 THEN json_obj
    ELSE IF i <= 2 + NumChapters THEN json_obj.chapters[i - 2]
    ELSE LET cp == CHOOSE cp \in (1..NumChapters) \X (1..MaxParagraphs + 1) :
                       /\ cp[2] <= NumParagraphs(cp[1])
                       /\ ParagraphAt(cp[1], cp[2]) = i
         IN  json_obj.chapters[cp[1]].paragraphs[cp[2]]

C3_FlattenOrder ==
    (Flattened /\ NumChapters >= 1) =>
        /\ Len(entries) = 2 + NumChapters + TotalParagraphs
        /\ entries[1] = BookId
        /\ heap[entries[1]].class_name = "Book"
        /\ heap[entries[1]].data = json_obj
        /\ heap[entries[2]].class_name = "Meta"
        /\ \A c \in 1..NumChapters :
              /\ heap[entries[ChapterAt(c)]].class_name = "Chapter"
              /\ heap[entries[ChapterAt(c)]].data = json_obj.chapters[c]
              /\ \A p \in 1..NumParagraphs(c) :
                    LET e == entries[ParagraphAt(c, p)] IN
                    /\ heap[e].class_name = "Paragraph"
                    /\ heap[e].data = json_obj.chapters[c].paragraphs[p]
                    /\ \E k \in 1..Len(heap[e].references) :
                          /\ heap[e].references[k].on_parent_property = "containedIn"
                          /\ heap[e].references[k].child = entries[ChapterAt(c)]
        /\ \A i, j \in 1..Len(entries) : i # j => entries[i] # entries[j]
        /\ \A i \in 1..Len(entries) :
              \A k \in 1..Len(heap[entries[i]].references) :
                  LET ref == heap[entries[i]].references[k] IN
                  ref.on_parent_property = "containedIn" =>
                      \E j \in 1..(i - 1) : entries[j] = ref.child

\* a book of two chapters, the first of one paragraph and the second of two, is
\* flattened and loaded
C3_Witness ==
    /\ pc = "done"
    /\ NumChapters = 2
    /\ NumParagraphs(1) = 1
    /\ NumParagraphs(2) = 2
    /\ Len(entries) = 7

\* C4: for a book whose chapter list is empty, get_entries completes without
\* error and yields exactly Book, Meta, the Book owning exactly the one reference
\* to Meta.
C4_EmptyBookFlattens ==
    NumChapters = 0 =>
        /\ exc \notin {"TypeError", "InvalidReferenceError"}
        /\ pc \in {"load_batch", "done"} =>
              /\ Len(entries) = 2
              /\ heap[entries[1]].class_name = "Book"
              /\ heap[entries[2]].class_name = "Meta"
              /\ heap[BookId].references
                     = <<Reference(BookId, entries[2], "meta", None)>>

\* object a owns the Reference of a to b through `property`
Linked(a, b, property) == InList(Reference(a, b, property, None), heap[a].references)

\* C5: after get_entries, for every parent/child pair it links (Book-Meta by
\* meta, Book-Chapter by chapters, Chapter-Paragraph by paragraphs) the parent
\* owns a Reference to the child by the parent property and the child owns the
\* Reference back to the parent by containedIn; no pair is linked in one
\* direction only.
C5_ReferenceSymmetry ==
    Flattened =>
        /\ Linked(entries[1], entries[2], "meta")
        /\ Linked(entries[2], entries[1], "containedIn")
        /\ \A c \in 1..NumChapters :
              /\ Linked(entries[1], entries[ChapterAt(c)], "chapters")
              /\ Linked(entries[ChapterAt(c)], entries[1], "containedIn")
              /\ \A p \in 1..NumParagraphs(c) :
                    /\ Linked(entries[ChapterAt(c)], entries[ParagraphAt(c, p)],
                              "paragraphs")
                    /\ Linked(entries[ParagraphAt(c, p)], entries[ChapterAt(c)],
                              "containedIn")
        /\ \A a \in 1..Len(heap) : \A k \in 1..Len(heap[a].references) :
              LET ref == heap[a].references[k] IN
              /\ ref.parent = a
              /\ IF ref.on_parent_property = "containedIn"
                 THEN \E m \in 1..Len(heap[ref.child].references) :
                         /\ heap[ref.child].references[m].parent = ref.child
                         /\ heap[ref.child].references[m].child = a
                         /\ heap[ref.child].references[m].on_parent_property
                               \in {"meta", "chapters", "paragraphs"}
                 ELSE Linked(ref.child, a, "containedIn")

\* a book with two chapters and a paragraph in the second one has been flattened
C5_Witness ==
    /\ Flattened
    /\ NumChapters = 2
    /\ NumParagraphs(2) >= 1
    /\ Len(heap[BookId].references) = 3

\* C6: when the connector fails the insertion of one entry, the connector being
\* reachable, load_batch logs the failure and still attempts the upsert of every
\* other entry of the batch.
C6_InsertFailureIsolated ==
    (exc = "InsertError" /\ pc \in {"done", "raised"}) =>
        /\ \A i \in 1..Len(entries) :
              \E j \in 1..Len(ops) :
                  /\ ops[j].op = "add_data_object"
                  /\ ops[j].class_name = heap[entries[i]].class_name
                  /\ ops[j].uuid = uuid(heap[entries[i]])
        /\ \E k \in 1..Len(log) : log[k].level = "error"

\* the own properties of the entry at place i of the flattened book, read from
\* the book dictionary
OwnProperties(i) ==
    IF i = 1 THEN [title |-> json_obj.title, author |-> json_obj.author]
    ELSE IF i = 2
    THEN [language |-> json_obj.meta.language, subject |-> json_obj.meta.subject,
          citation |-> json_obj.meta.citation]
    ELSE IF i <= 2 + NumChapters
    THEN [title |-> json_obj.chapters[i - 2].title,
          seq |-> json_obj.chapters[i - 2].seq,
          text |-> json_obj.chapters[i - 2].text]
    ELSE LET cp == CHOOSE cp \in (1..NumChapters) \X (1..MaxParagraphs + 1) :
                       /\ cp[2] <= NumParagraphs(cp[1])
                       /\ ParagraphAt(cp[1], cp[2]) = i
         IN  [seq |-> json_obj.chapters[cp[1]].paragraphs[cp[2]].seq,
              text |-> json_obj.chapters[cp[1]].paragraphs[cp[2]].text]

\* C7: in a batch run without connector failure every entry of the flattened
\* sequence is upserted exactly once, in sequence order, keyed by class_name and
\* id, with a payload equal to the entry's own properties and holding no nested
\* children; a flush follows each entry.
C7_UpsertEachEntryOnce ==
    (exc = None /\ pc \in {"load_batch", "done"}) =>
        /\ Len(Upserts) = li - 1
        /\ pc = "done" => Len(Upserts) = Len(entries)
        /\ \A i \in 1..Len(Upserts) :
              /\ Upserts[i].class_name = heap[entries[i]].class_name
              /\ Upserts[i].uuid = uuid(heap[entries[i]])
              /\ Upserts[i].data_object = OwnProperties(i)
              /\ DOMAIN Upserts[i].data_object \cap {"chapters", "paragraphs", "meta"} = {}
        /\ Len(SelectSeq(ops, IsFlush)) = Len(Upserts)
        /\ \A j \in 1..Len(ops) :
              ops[j].op = "add_data_object" =>
                  \E k \in (j + 1)..Len(ops) :
                      /\ ops[k].op = "flush"
                      /\ \A m \in (j + 1)..k : ops[m].op # "add_data_object"

\* a book with chapters and paragraphs has been loaded to the end without failure
C7_Witness ==
    /\ pc = "done"
    /\ exc = None
    /\ NumChapters = 2
    /\ TotalParagraphs >= 2
    /\ Len(Upserts) = Len(entries)

(***************************************************************************)
(* Properties of resolve_references, checked under SpecEntry.              *)
(***************************************************************************)
IsLink(o) == o.op = "add_reference"

Links == SelectSeq(ops, IsLink)

\* the number of links the references before place k of `refs` stand for
RECURSIVE LinksBefore(_, _)
LinksBefore(refs, k) ==
    IF k <= 1 THEN 0
    ELSE LinksBefore(refs, k - 1)
         + (IF refs[k - 1].on_child_property # None THEN 2 ELSE 1)

\* C8: resolve_references issues for every Reference of the list, in list order,
\* one link (parent.class_name, parent.id, on_parent_property) -> (child.class_name,
\* child.id); if and only if on_child_property is set, the mirrored link
\* (child.class_name, child.id, on_child_property) -> (parent.class_name, parent.id)
\* comes immediately after it; a Reference without on_child_property gives
\* exactly one link.
C8_LinksOfReferences ==
    pc = "entry_done" =>
        LET refs == heap[1].references IN
        /\ Len(Links) = LinksBefore(refs, Len(refs) + 1)
        /\ Len(ops) = Len(Links) + 2
        /\ \A k \in 1..Len(refs) :
              LET ref == refs[k]
                  at == LinksBefore(refs, k) + 1
              IN
              /\ Links[at] =
                    [op |-> "add_reference",
                     from_object_class_name |-> heap[ref.parent].class_name,
                     from_object_uuid |-> <<heap[ref.parent].class_name,
                                            heap[ref.parent].data>>,
                     from_property_name |-> ref.on_parent_property,
                     to_object_class_name |-> heap[ref.child].class_name,
                     to_object_uuid |-> <<heap[ref.child].class_name,
                                          heap[ref.child].data>>]
              /\ ref.on_child_property # None =>
                    Links[at + 1] =
                        [op |-> "add_reference",
                         from_object_class_name |-> heap[ref.child].class_name,
                         from_object_uuid |-> <<heap[ref.child].class_name,
                                                heap[ref.child].data>>,
                         from_property_name |-> ref.on_child_property,
                         to_object_class_name |-> heap[ref.parent].class_name,
                         to_object_uuid |-> <<heap[ref.parent].class_name,
                                              heap[ref.parent].data>>]

\* an Entry with a two-way Reference followed by a one-way Reference was loaded
C8_Witness ==
    /\ pc = "entry_done"
    /\ Len(heap[1].references) = 2
    /\ heap[1].references[1].on_child_property # None
    /\ heap[1].references[2].on_child_property = None
    /\ Len(Links) = 3

(***************************************************************************)
(* Properties of the extractor, checked under SpecExtract.                 *)
(***************************************************************************)
\* the cleaned whole-chapter text of every chapter of the document
CleanedChapters == [i \in 1..Len(soup) |-> clean_paragraph(join(soup[i].p))]

\* the cleaned text of every paragraph of chapter i of the document
CleanedParagraphs(i) == [j \in 1..Len(soup[i].p) |-> clean_paragraph(soup[i].p[j])]

\* the places of the texts of 3 characters or more
Material(texts) == {i \in 1..Len(texts) : Len(texts[i]) >= 3}

\* the place of i among the places K
Rank(K, i) == Cardinality({j \in K : j <= i})

\* C9: the seq values of the emitted chapters are exactly 1..N in order, and
\* within each emitted chapter the seq values of its emitted paragraphs are
\* exactly 1..M in order, whatever was dropped and wherever it stood.
C9_ContiguousSeq ==
    \A i \in 1..Len(ret) :
        /\ ret[i].seq = i
        /\ \A j \in 1..Len(ret[i].paragraphs) : ret[i].paragraphs[j].seq = j

\* a dropped chapter stands before an emitted one, in which a dropped paragraph
\* stands before an emitted one
C9_Witness ==
    /\ pc = "extracted"
    /\ \E i \in 1..Len(soup) : \E k \in (i + 1)..Len(soup) :
          /\ i \notin Material(CleanedChapters)
          /\ k \in Material(CleanedChapters)
          /\ \E j \in 1..Len(soup[k].p) : \E l \in (j + 1)..Len(soup[k].p) :
                /\ j \notin Material(CleanedParagraphs(k))
                /\ l \in Material(CleanedParagraphs(k))
                /\ ret[Rank(Material(CleanedChapters), k)].paragraphs # <<>>

\* C10: the emitted chapters are exactly the chapters of the document whose
\* cleaned whole-chapter text has 3 characters or more, in document order, and
\* the emitted paragraphs of an emitted chapter are exactly those of its
\* paragraphs whose cleaned text has 3 characters or more, in document order:
\* lengths 0, 1 and 2 are dropped, length 3 is kept, nothing else is dropped.
C10_MaterialityFilterExact ==
    pc = "extracted" =>
        LET K == Material(CleanedChapters) IN
        /\ Len(ret) = Cardinality(K)
        /\ \A i \in K :
              LET r == ret[Rank(K, i)]
                  P == Material(CleanedParagraphs(i))
              IN
              /\ r.text = CleanedChapters[i]
              /\ Len(r.paragraphs) = Cardinality(P)
              /\ \A j \in P : r.paragraphs[Rank(P, j)].text = CleanedParagraphs(i)[j]

\* a chapter of fewer than 3 characters was dropped, and an emitted chapter had a
\* paragraph of exactly 3 characters, kept, and one of exactly 2, dropped
C10_Witness ==
    /\ pc = "extracted"
    /\ \E i \in 1..Len(soup) : Len(CleanedChapters[i]) <= 2
    /\ \E i \in Material(CleanedChapters) :
          /\ \E j \in 1..Len(soup[i].p) : Len(CleanedParagraphs(i)[j]) = 3
          /\ \E j \in 1..Len(soup[i].p) : Len(CleanedParagraphs(i)[j]) = 2
          /\ Len(ret[Rank(Material(CleanedChapters), i)].paragraphs) = 1

(***************************************************************************)
(* Properties of the chapter titles, checked under SpecTitle.              *)
(***************************************************************************)
\* the place of the first line feed of a text, 0 when it has none
FirstBreak(text) ==
    IF \E i \in 1..Len(text) : text[i] = "LF"
    THEN CHOOSE i \in 1..Len(text) : text[i] = "LF" /\ \A j \in 1..(i - 1) : text[j] # "LF"
    ELSE 0

\* the part of a heading text that follows its first line break; None when the
\* chapter has no heading, the text has no line break, or nothing follows it
AfterFirstBreak(h) ==
    IF h = NoText \/ FirstBreak(h) = 0 \/ FirstBreak(h) = Len(h) THEN NoText
    ELSE SubSeq(h, FirstBreak(h) + 1, Len(h))

\* C11, as stated: the title of an emitted chapter is the part of the text of its
\* first level-2 heading that follows the first line break, and is absent when
\* the text has no line break, nothing follows it, or the chapter has no heading.
C11_TitleAfterFirstBreak ==
    (pc = "extracted" /\ Len(ret) = Len(soup)) =>
        \A i \in 1..Len(ret) : ret[i].title = AfterFirstBreak(soup[i].h2)

(***************************************************************************)
(* Properties of Book.get, checked under SpecBook.                         *)
(***************************************************************************)
\* the places of the tags of that name that are direct children of body
DirectChildren(name) ==
    {i \in 1..Len(doc.body) : doc.body[i].name = name /\ doc.body[i].parent = "body"}

\* the first of a non-empty set of places
First(K) == CHOOSE i \in K : \A j \in K : i <= j

\* C12: the title of the Document is the title annotation when present, otherwise
\* the text of the first h1 that is a direct child of body, otherwise absent; the
\* author is the creator annotation when present, otherwise the list of names
\* found in the first h2 that is a direct child of body, otherwise absent;
\* language and subject are their annotations, absent when these are missing;
\* and no missing field makes the extraction fail.
C12_FieldResolution ==
    /\ exc = None
    /\ pc = "compiled" =>
          /\ compiled.title =
                (IF doc.meta["dc.title"] # NoText THEN doc.meta["dc.title"]
                 ELSE IF DirectChildren("h1") # {}
                      THEN doc.body[First(DirectChildren("h1"))].text
                      ELSE NoText)
          /\ compiled.author =
                (IF doc.meta["dc.creator"] # NoText THEN doc.meta["dc.creator"]
                 ELSE IF DirectChildren("h2") # {}
                      THEN findall(doc.body[First(DirectChildren("h2"))].text, 1)
                      ELSE NoText)
          /\ compiled.meta.language = doc.meta["dc.language"]
          /\ compiled.meta.subject = doc.meta["dc.subject"]

\* a document without title, creator and language annotations was compiled: its
\* first h1 is inside a div and its second a child of body, and it has no h2
C12_Witness ==
    /\ pc = "compiled"
    /\ doc.meta["dc.title"] = NoText
    /\ doc.meta["dc.creator"] = NoText
    /\ doc.meta["dc.language"] = NoText
    /\ Len(doc.body) = 2
    /\ doc.body[1].name = "h1" /\ doc.body[1].parent = "div"
    /\ doc.body[2].name = "h1" /\ doc.body[2].parent = "body"
    /\ compiled.title = BodyText(2)
    /\ compiled.author = NoText
    /\ compiled.meta.language = NoText

\* the placeholder of a missing component
Placeholder == <<"N", "o", "n", "e">>

Rendered(v) == IF v = NoText THEN Placeholder ELSE v

\* the first 10 characters of a text
First10(s) == SubSeq(s, 1, IF Len(s) < 10 THEN Len(s) ELSE 10)

\* s is a date of the calendar written YYYY-MM-DD
IsIsoDate(s) ==
    /\ Len(s) = 10
    /\ s[5] = "-" /\ s[8] = "-"
    /\ \A i \in {1, 2, 3, 4, 6, 7, 9, 10} : IsDigit(s[i])
    /\ Number(SubSeq(s, 1, 4)) >= 1000
    /\ Number(SubSeq(s, 6, 7)) \in 1..12
    /\ Number(SubSeq(s, 9, 10)) >= 1
    /\ Number(SubSeq(s, 9, 10))
          <= DaysInMonth(Number(SubSeq(s, 1, 4)), Number(SubSeq(s, 6, 7)))

\* t is written Mon DD, YYYY
IsMonDDYYYY(t) ==
    /\ Len(t) = 10
    /\ \E m \in 1..12 : t[1] = MonthAbbr[m]
    /\ t[2] = " " /\ t[5] = "," /\ t[6] = " "
    /\ \A i \in {3, 4, 7, 8, 9, 10} : IsDigit(t[i])

\* the text before the date of the citation, and the text after it
BeforeDate ==
    Rendered(doc.meta["dc.rights"]) \o <<" ">> \o Rendered(doc.meta["dc.creator"])
    \o <<".", " ">> \o Rendered(doc.meta["dc.title"])
    \o <<".", " ", "Urbana, Illinois: Project Gutenberg", ".", " ", "Retrieved", " ">>

AfterDate == <<" ", "from", " ">> \o Rendered(doc.meta["dcterms.source"])

\* C13: the citation is always produced, and it is the rights, the author, the
\* title, the fixed text, the date and the source in this order, every missing
\* one rendered as the placeholder in its place; the date is the first 10
\* characters of the modified annotation, YYYY-MM-DD, rewritten Mon DD, YYYY, and
\* the placeholder when the annotation is missing; whatever the annotation holds,
\* what stands in the place of the date is a date so written or the placeholder.
C13_CitationShape ==
    /\ exc = None
    /\ pc = "compiled" =>
          LET c == compiled.meta.citation
              d == SubSeq(c, Len(BeforeDate) + 1, Len(c) - Len(AfterDate))
              modified == doc.meta["dcterms.modified"]
          IN
          /\ Len(c) >= Len(BeforeDate) + Len(AfterDate)
          /\ SubSeq(c, 1, Len(BeforeDate)) = BeforeDate
          /\ SubSeq(c, Len(c) - Len(AfterDate) + 1, Len(c)) = AfterDate
          /\ d = Placeholder \/ IsMonDDYYYY(d)
          /\ modified = NoText => d = Placeholder
          /\ (modified # NoText /\ IsIsoDate(First10(modified))) =>
                d = <<MonthAbbr[Number(SubSeq(modified, 6, 7))], " ",
                      modified[9], modified[10], ",", " ",
                      modified[1], modified[2], modified[3], modified[4]>>

\* a document without rights and creator annotations, whose modified annotation
\* is the 30th of February, was compiled
C13_Witness ==
    /\ pc = "compiled"
    /\ doc.meta["dc.rights"] = NoText
    /\ doc.meta["dc.creator"] = NoText
    /\ doc.meta["dc.title"] = <<"Moby-Dick">>
    /\ doc.meta["dcterms.source"] = <<"http://example">>
    /\ doc.meta["dcterms.modified"] = <<"2", "0", "2", "1", "-", "0", "2", "-", "3", "0">>
    /\ compiled.meta.citation =
          <<"N", "o", "n", "e", " ", "N", "o", "n", "e", ".", " ", "Moby-Dick", ".", " ",
            "Urbana, Illinois: Project Gutenberg", ".", " ", "Retrieved", " ",
            "N", "o", "n", "e", " ", "from", " ", "http://example">>

\* the place of the first full stop of a text from place i on, 0 when there is
\* none
RECURSIVE FullStop(_, _)
FullStop(s, i) ==
    IF i > Len(s) THEN 0
    ELSE IF s[i] = "." THEN i
    ELSE FullStop(s, i + 1)

\* the author of the citation: what stands between the rights, the space after
\* them, and the first full stop after that
CitationAuthor ==
    LET c == compiled.meta.citation
        from == Len(Rendered(doc.meta["dc.rights"])) + 2
    IN  SubSeq(c, from, FullStop(c, from) - 1)

\* the title of the citation: what stands between the full stop and the space
\* that end the author, and the next full stop
CitationTitle ==
    LET c == compiled.meta.citation
        from == FullStop(c, Len(Rendered(doc.meta["dc.rights"])) + 2) + 2
    IN  SubSeq(c, from, FullStop(c, from) - 1)

\* C21: the author and the title of the citation are the creator and the title
\* annotations, the placeholder when these are missing, whatever the headings
\* of the document: with the annotation present they are the author and the
\* title of the Document; with the title annotation missing and an h1 under body
\* the Document has the text of the heading as its title and the citation the
\* placeholder, and these differ unless the heading reads as the placeholder;
\* with the creator annotation missing and an h2 under body the Document has the
\* list of the names of the heading as its author and the citation the
\* placeholder.
C21_CitationFromAnnotationsOnly ==
    pc = "compiled" =>
        LET title == doc.meta["dc.title"]
            creator == doc.meta["dc.creator"]
        IN
        /\ CitationTitle = Rendered(title)
        /\ CitationAuthor = Rendered(creator)
        /\ title # NoText => CitationTitle = compiled.title
        /\ creator # NoText => CitationAuthor = compiled.author
        /\ (title = NoText /\ DirectChildren("h1") # {}) =>
              /\ CitationTitle = Placeholder
              /\ compiled.title = doc.body[First(DirectChildren("h1"))].text
              /\ compiled.title # Placeholder => CitationTitle # compiled.title
        /\ (creator = NoText /\ DirectChildren("h2") # {}) =>
              /\ CitationAuthor = Placeholder
              /\ compiled.author = findall(doc.body[First(DirectChildren("h2"))].text, 1)
        /\ (title = NoText /\ DirectChildren("h1") = {}) =>
              (CitationTitle = Placeholder /\ compiled.title = NoText)

\* a document without title and creator annotations was compiled, whose headings
\* under body give the Document its title and its author: the citation has the
\* placeholder for both
C21_Witness ==
    /\ pc = "compiled"
    /\ doc.meta["dc.title"] = NoText
    /\ doc.meta["dc.creator"] = NoText
    /\ doc.meta["dc.rights"] = <<"Public", " ", "domain">>
    /\ Len(doc.body) = 2
    /\ doc.body[1].name = "h2" /\ doc.body[1].parent = "body"
    /\ doc.body[2].name = "h1" /\ doc.body[2].parent = "body"
    /\ compiled.title = BodyText(2)
    /\ compiled.author = <<<<"Herman", " ", "Melville">>>>
    /\ CitationTitle = <<"N", "o", "n", "e">>
    /\ CitationAuthor = <<"N", "o", "n", "e">>

(***************************************************************************)
(* Properties of the reference lists, checked under SpecRefs.              *)
(***************************************************************************)
\* the Reference has the object as its parent or as its child
Endpoint(ref, self) == ref.parent = self \/ ref.child = self

\* C14: a call of add_references raises InvalidReferenceError exactly when one of
\* the References it is given has the entry as neither its parent nor its child;
\* every Reference stored in the reference list of an entry has that entry as
\* its parent or its child; and the flattening of a document never raises
\* InvalidReferenceError.
C14_ReferencesHaveTheirEntry ==
    /\ [](\A i \in 1..Len(heap) : \A k \in 1..Len(heap[i].references) :
              Endpoint(heap[i].references[k], i))
    /\ [](calls >= 1 => exc # "InvalidReferenceError")
    /\ [][pc = "add_references" =>
              ((exc' = "InvalidReferenceError")
                  <=> (\E k \in 1..Len(args) : ~Endpoint(args[k], 1)))]_vars

\* a call given a Reference of the entry and then a Reference between two other
\* entries raised, the first of the two being stored
C14_Witness ==
    /\ pc = "raised"
    /\ exc = "InvalidReferenceError"
    /\ Len(args) = 2
    /\ Endpoint(args[1], 1)
    /\ ~Endpoint(args[2], 1)
    /\ InList(args[1], heap[1].references)

(***************************************************************************)
(* Properties of Extract.run, checked under SpecRun.                       *)
(***************************************************************************)
\* the output path of the document of that name
OutPath(name) ==
    IF extract.output \in DOMAIN fs /\ fs[extract.output] = <<"dir">>
    THEN <<extract.output[1], <<name[1], ".json">>>>
    ELSE extract.output

\* the document of that name has been extracted to its output path
Extracted(name) ==
    /\ OutPath(name) \in DOMAIN fs
    /\ fs[OutPath(name)] = <<"json", name>>

IsHtml(name) == name \in HtmlNames

\* C15: over an input directory with overwrite disabled, run raises FileExists at
\* the first document whose output path exists, leaves the file at that path as
\* it is, and extracts none of the documents that come after it in the scan; a
\* document whose output path does not exist is extracted; with overwrite enabled
\* FileExists is never raised and every document is extracted.
C15_FailFastOnCollision ==
    /\ [][(pc = "scandir" /\ scan # <<>> /\ IsHtml(Head(scan)[2])) =>
            LET name == Head(scan)[2] IN
            IF ~extract.overwrite /\ OutPath(name) \in DOMAIN fs
            THEN exc' = "FileExists" /\ pc' = "raised" /\ fs' = fs
            ELSE exc' = None /\ fs' = written(fs, OutPath(name), <<"json", name>>)]_vars
    /\ []((pc = "raised" /\ exc = "FileExists" /\ extract.input = InputDir) =>
            /\ ~extract.overwrite
            /\ ~Extracted(Head(scan)[2])
            /\ \A k \in 2..Len(scan) : ~Extracted(scan[k][2]))
    /\ [](extract.overwrite => exc # "FileExists")
    /\ []((pc = "ran" /\ extract.overwrite /\ extract.input = InputDir
              /\ extract.output = OutputDir) =>
            \A name \in HtmlNames :
                os_path_join(InputDir, name) \in DOMAIN fs => Extracted(name))

\* document a was extracted, the book of document b was there before the run,
\* run raised on it, and document c, next in the scan, was not extracted
C15_Witness ==
    /\ pc = "raised"
    /\ exc = "FileExists"
    /\ extract.input = InputDir
    /\ extract.output = OutputDir
    /\ Len(scan) >= 2
    /\ Head(scan)[2] = <<"b", ".html">>
    /\ fs[OutPath(<<"b", ".html">>)] = <<"old">>
    /\ Extracted(<<"a", ".html">>)
    /\ scan[2][2] = <<"c", ".html">>
    /\ OutPath(<<"c", ".html">>) \notin DOMAIN fs

(***************************************************************************)
(* Properties of Extract.__init__, checked under SpecConstruct.            *)
(***************************************************************************)
\* C16, as stated: constructing Extract with a format name that is a key of the
\* registry, the formats of the Extractor subclasses, yields the extractor
\* registered under it, and constructing it with any other name fails with
\* ExtractorUnsupported.
C16_RegistryLookup ==
    pc # "Extract" =>
        IF args.file_format \in DOMAIN Extractors.extractors
        THEN /\ pc = "constructed"
             /\ extract.extractor = Extractors.extractors[args.file_format]
        ELSE /\ pc = "raised"
             /\ exc = "ExtractorUnsupported"

(***************************************************************************)
(* Further properties of the loader, checked under Spec and SpecAgain.     *)
(***************************************************************************)
\* s is t, or t with more at its end
IsPrefix(s, t) == Len(s) <= Len(t) /\ SubSeq(t, 1, Len(s)) = s

\* C17: in every step of the flattening and of the load, the reference list of
\* every entry keeps what it has and at most gets more at its end, no entry is
\* removed, and the data and the class of every entry and the input document
\* stay as they are.
C17_OnlyReferencesGrow ==
    [][/\ json_obj' = json_obj
       /\ Len(heap') >= Len(heap)
       /\ \A i \in 1..Len(heap) :
             /\ heap'[i].data = heap[i].data
             /\ heap'[i].class_name = heap[i].class_name
             /\ IsPrefix(heap[i].references, heap'[i].references)]_vars

\* a book of two chapters, the first of two paragraphs, was flattened and loaded:
\* the Book has got its three References one after the other
C17_Witness ==
    /\ pc = "done"
    /\ NumChapters = 2
    /\ NumParagraphs(1) = 2
    /\ Len(heap[BookId].references) = 3
    /\ Len(heap[entries[ChapterAt(1)]].references) = 3
    /\ heap[BookId].data = json_obj

\* the number of places of a sequence that hold the value
Count(s, v) == Cardinality({j \in 1..Len(s) : s[j] = v})

\* the link of a Reference of the Book to a child of that class and data
BookLink(property, class_name, data) ==
    [op |-> "add_reference",
     from_object_class_name |-> "Book", from_object_uuid |-> <<"Book", json_obj>>,
     from_property_name |-> property,
     to_object_class_name |-> class_name, to_object_uuid |-> <<class_name, data>>]

LinkOf(ref) ==
    [op |-> "add_reference",
     from_object_class_name |-> heap[ref.parent].class_name,
     from_object_uuid |-> <<heap[ref.parent].class_name, heap[ref.parent].data>>,
     from_property_name |-> ref.on_parent_property,
     to_object_class_name |-> heap[ref.child].class_name,
     to_object_uuid |-> <<heap[ref.child].class_name, heap[ref.child].data>>]

\* the number of References the entries before place i of `entries` own
RECURSIVE ReferencesBefore(_)
ReferencesBefore(i) ==
    IF i <= 1 THEN 0
    ELSE ReferencesBefore(i - 1) + Len(heap[entries[i - 1]].references)

\* C19: after one flattening every Reference in the reference list of an entry
\* has that entry as its parent and no on_child_property; the Book owns N + 1
\* References, a Chapter 1 and one for each of its paragraphs, the Meta and a
\* Paragraph 1 each; and a batch run issues one link for every stored Reference,
\* in the order of the entries and of their lists, no link twice.
C19_OneLinkPerReference ==
    Flattened =>
        /\ \A a \in 1..Len(heap) : \A k \in 1..Len(heap[a].references) :
              /\ heap[a].references[k].parent = a
              /\ heap[a].references[k].on_child_property = None
        /\ Len(heap[entries[1]].references) = NumChapters + 1
        /\ Len(heap[entries[2]].references) = 1
        /\ \A c \in 1..NumChapters :
              /\ Len(heap[entries[ChapterAt(c)]].references) = 1 + NumParagraphs(c)
              /\ \A p \in 1..NumParagraphs(c) :
                    Len(heap[entries[ParagraphAt(c, p)]].references) = 1
        /\ pc = "done" =>
              LET links == Links
              IN  /\ Len(links) = ReferencesBefore(Len(entries) + 1)
                  /\ \A i \in 1..Len(entries) :
                        \A k \in 1..Len(heap[entries[i]].references) :
                            links[ReferencesBefore(i) + k]
                               = LinkOf(heap[entries[i]].references[k])
                  /\ \A i, j \in 1..Len(links) : i # j => links[i] # links[j]

\* a book of two chapters of two paragraphs each was flattened and loaded: 14
\* References, 14 links
C19_Witness ==
    /\ pc = "done"
    /\ NumChapters = 2
    /\ NumParagraphs(1) = 2
    /\ NumParagraphs(2) = 2
    /\ Len(Links) = 14

(***************************************************************************)
(* Further properties of the extractor, checked under SpecExtract.         *)
(***************************************************************************)
\* C20: a chapter is retained when the cleaned text of all its paragraphs, joined
\* by spaces, has 3 characters or more, whatever its paragraphs: a dropped
\* chapter has no paragraph that the paragraph filter would keep, and a retained
\* chapter none of whose paragraphs is kept is emitted with an empty paragraph
\* list and numbered like the others.
C20_RetentionOnJoinedText ==
    pc = "extracted" =>
        LET K == Material(CleanedChapters) IN
        /\ \A i \in (1..Len(soup)) \ K : Material(CleanedParagraphs(i)) = {}
        /\ Len(ret) = Cardinality(K)
        /\ \A i \in K :
              /\ ret[Rank(K, i)].seq = Rank(K, i)
              /\ Material(CleanedParagraphs(i)) = {} => ret[Rank(K, i)].paragraphs = <<>>

\* a chapter of two paragraphs of 2 characters each, a chapter text of 5
\* characters, was emitted with number 1 and no paragraph
C20_Witness ==
    /\ pc = "extracted"
    /\ \E i \in 1..Len(soup) :
          /\ Len(soup[i].p) = 2
          /\ Len(CleanedParagraphs(i)[1]) = 2
          /\ Len(CleanedParagraphs(i)[2]) = 2
          /\ Len(CleanedChapters[i]) = 5
          /\ Len(ret) = 1
          /\ ret[1].seq = 1
          /\ ret[1].text = CleanedChapters[i]
          /\ ret[1].paragraphs = <<>>

====
